---- MODULE Spec2Model ----
(***************************************************************************)
(* The Arabic shaping-and-reordering engine of reports.py: the form and    *)
(* ligature tables, _is_arabic, _connects_left, _shape_run and ar.         *)
(* Characters are Unicode codepoints (integers), strings are sequences of  *)
(* codepoints.  ar is modelled statement by statement: one action per      *)
(* loop iteration of its three loops and of the while loop of _shape_run.  *)
(***************************************************************************)
EXTENDS Integers, Sequences, FiniteSets, TLC

\* ---------------------------------------------------------------- bounds
\* longest input text explored
MaxLen == 4
\* longest input text explored when termination is checked
MaxFairLen == 3
\* longest first argument explored when ar is called several times in a row
MaxReLen == 3
\* number of calls in such a sequence
MaxCalls == 2

\* ------------------------------------------------------- program constants
\* an absent slot of a form-table entry (None in the source)
None == 0
\* the value of nxt when there is no next character ('' in the source)
NoChar == -1

NEWLINE == 10
LAM == 1604
ARABIC_LO == 1536
ARABIC_HI == 1791

\* _AR_FORMS: letter -> <<isolated, final, initial, medial>>
AR_FORMS ==
    1569 :> <<65152, None, None, None>> @@
    1570 :> <<65153, 65154, None, None>> @@
    1571 :> <<65155, 65156, None, None>> @@
    1572 :> <<65157, 65158, None, None>> @@
    1573 :> <<65159, 65160, None, None>> @@
    1574 :> <<65161, 65162, 65163, 65164>> @@
    1575 :> <<65165, 65166, None, None>> @@
    1576 :> <<65167, 65168, 65169, 65170>> @@
    1577 :> <<65171, 65172, None, None>> @@
    1578 :> <<65173, 65174, 65175, 65176>> @@
    1579 :> <<65177, 65178, 65179, 65180>> @@
    1580 :> <<65181, 65182, 65183, 65184>> @@
    1581 :> <<65185, 65186, 65187, 65188>> @@
    1582 :> <<65189, 65190, 65191, 65192>> @@
    1583 :> <<65193, 65194, None, None>> @@
    1584 :> <<65195, 65196, None, None>> @@
    1585 :> <<65197, 65198, None, None>> @@
    1586 :> <<65199, 65200, None, None>> @@
    1587 :> <<65201, 65202, 65203, 65204>> @@
    1588 :> <<65205, 65206, 65207, 65208>> @@
    1589 :> <<65209, 65210, 65211, 65212>> @@
    1590 :> <<65213, 65214, 65215, 65216>> @@
    1591 :> <<65217, 65218, 65219, 65220>> @@
    1592 :> <<65221, 65222, 65223, 65224>> @@
    1593 :> <<65225, 65226, 65227, 65228>> @@
    1594 :> <<65229, 65230, 65231, 65232>> @@
    1601 :> <<65233, 65234, 65235, 65236>> @@
    1602 :> <<65237, 65238, 65239, 65240>> @@
    1603 :> <<65241, 65242, 65243, 65244>> @@
    1604 :> <<65245, 65246, 65247, 65248>> @@
    1605 :> <<65249, 65250, 65251, 65252>> @@
    1606 :> <<65253, 65254, 65255, 65256>> @@
    1607 :> <<65257, 65258, 65259, 65260>> @@
    1608 :> <<65261, 65262, None, None>> @@
    1609 :> <<65263, 65264, None, None>> @@
    1610 :> <<65265, 65266, 65267, 65268>>

\* _LAM_ALEF: alef variant -> <<isolated ligature, final ligature>>
LAM_ALEF ==
    1570 :> <<65269, 65270>> @@
    1571 :> <<65271, 65272>> @@
    1573 :> <<65273, 65274>> @@
    1575 :> <<65275, 65276>>

\* the characters of ' ،؟!–-\n' (the break set of next_ar)
BreakChars == {32, 1548, 1567, 33, 8211, 45, 10}

\* the characters of '،؟!' (Arabic-class punctuation of the segmenter)
ArPunct == {1548, 1567, 33}

\* the characters str.strip() removes (str.isspace)
Whitespace ==
    {9, 10, 11, 12, 13, 28, 29, 30, 31, 32, 133, 160, 5760, 8232, 8233,
     8239, 8287, 12288} \cup (8192..8202)

\* ------------------------------------------------------------ input space
\* newline, space, '!', 'H', Arabic comma, hamza (isolated slot only),
\* alef (two slots, ligature-eligible), beh and lam (four slots),
\* Arabic-Indic digit zero (Arabic block, no table entry)
Alphabet == {10, 32, 33, 72, 1548, 1569, 1575, 1576, 1604, 1632}

Texts == UNION {[1..n -> Alphabet] : n \in 0..MaxLen}

FairTexts == UNION {[1..n -> Alphabet] : n \in 0..MaxFairLen}

ReTexts == UNION {[1..n -> Alphabet] : n \in 0..MaxReLen}

\* -------------------------------------------------------------- shared state
VARIABLES
    ar_forms,      \* the module global _AR_FORMS
    lam_alef,      \* the module global _LAM_ALEF
    history        \* the caller's record of the calls that have returned

\* ------------------------------------------------------------ string helpers
RECURSIVE Reverse(_)
Reverse(s) == IF s = <<>> THEN <<>> ELSE Append(Reverse(Tail(s)), Head(s))

\* ''.join(list of strings)
RECURSIVE Join(_)
Join(ss) == IF ss = <<>> THEN <<>> ELSE Head(ss) \o Join(Tail(ss))

JoinLines_NoSeparator(ls) == Join(ls)

\* '\n'.join(list of strings)
RECURSIVE JoinLines(_)
JoinLines(ls) ==
    IF ls = <<>> THEN <<>>
    ELSE IF Len(ls) = 1 THEN ls[1]
    ELSE ls[1] \o <<NEWLINE>> \o JoinLines(Tail(ls))

\* text.split('\n')
RECURSIVE Split(_)
Split(s) ==
    IF \A k \in 1..Len(s) : s[k] # NEWLINE THEN <<s>>
    ELSE LET p == CHOOSE k \in 1..Len(s) :
                     s[k] = NEWLINE /\ \A j \in 1..(k-1) : s[j] # NEWLINE
         IN <<SubSeq(s, 1, p-1)>> \o Split(SubSeq(s, p+1, Len(s)))

\* s.strip()
RECURSIVE LStrip(_)
LStrip(s) == IF s # <<>> /\ Head(s) \in Whitespace THEN LStrip(Tail(s)) ELSE s

RECURSIVE LStripMarks(_)
LStripMarks(s) ==
    IF s # <<>> /\ Head(s) \in Whitespace \cup ArPunct
    THEN LStripMarks(Tail(s)) ELSE s

Strip_Marks(s) == Reverse(LStripMarks(Reverse(LStripMarks(s))))

Strip(s) == Reverse(LStrip(Reverse(LStrip(s))))

IsBlank_EmptyOnly(line) == line = <<>>

\* not line.strip()
IsBlank(line) == Strip(line) = <<>>

\* ---------------------------------------------------------------- classifier
\* ar_forms and lam_alef are the module globals _AR_FORMS and _LAM_ALEF (state,
\* declared below); AR_FORMS and LAM_ALEF are the dict literals bound to them
\* when the module is loaded.
is_arabic_Wide(ch) == ARABIC_LO <= ch /\ ch <= 65279

is_arabic(ch) == ARABIC_LO <= ch /\ ch <= ARABIC_HI

connects_left(ch) == ch \in DOMAIN ar_forms /\ ar_forms[ch][3] # None

is_arabic_class_NoMarks(ch) == is_arabic(ch)

\* is_ar of the segmenter loop
is_arabic_class(ch) == is_arabic(ch) \/ ch \in ArPunct

\* -------------------------------------------------------------------- shaper
prev_conn_AnyEntry(chars, i) == i > 0 /\ chars[i] \in DOMAIN ar_forms

\* chars is 1-indexed here, i is the 0-based index of the source:
\* chars[i] of the source is chars[i+1] here.
prev_conn(chars, i) == i > 0 /\ connects_left(chars[i])

nxt(chars, i) == IF i + 1 < Len(chars) THEN chars[i + 2] ELSE NoChar

next_ar_NoBreakSet(n) == is_arabic(n) \/ n \in DOMAIN ar_forms

\* '' is a substring of every string, so a missing next is "in" the break set
next_ar(n) ==
    /\ is_arabic(n) \/ n \in DOMAIN ar_forms
    /\ ~(n = NoChar \/ n \in BreakChars)

ChooseForm_FinalFirst(f, pc_, na) ==
    LET can_left == f[3] # None IN
    IF pc_ /\ f[2] # None THEN f[2]
    ELSE IF pc_ /\ na /\ can_left /\ f[4] # None THEN f[4]
    ELSE IF na /\ can_left /\ f[3] # None THEN f[3]
    ELSE f[1]

ChooseForm_NoNextCheck(f, pc_, na) ==
    LET can_left == f[3] # None IN
    IF pc_ /\ na /\ can_left /\ f[4] # None THEN f[4]
    ELSE IF pc_ /\ f[2] # None THEN f[2]
    ELSE IF can_left /\ f[3] # None THEN f[3]
    ELSE f[1]

ChooseForm_FinalUnchecked(f, pc_, na) ==
    LET can_left == f[3] # None IN
    IF pc_ /\ na /\ can_left /\ f[4] # None THEN f[4]
    ELSE IF pc_ THEN f[2]
    ELSE IF na /\ can_left /\ f[3] # None THEN f[3]
    ELSE f[1]

\* the if / elif chain choosing the presentation form
ChooseForm(f, pc_, na) ==
    LET can_left == f[3] # None IN
    IF pc_ /\ na /\ can_left /\ f[4] # None THEN f[4]
    ELSE IF pc_ /\ f[2] # None THEN f[2]
    ELSE IF na /\ can_left /\ f[3] # None THEN f[3]
    ELSE f[1]

\* the lam-alef test
IsLamAlef(chars, i) ==
    chars[i + 1] = LAM /\ i + 1 < Len(chars) /\ chars[i + 2] \in DOMAIN lam_alef

LigForm_AlwaysIsolated(chars, i) == lam_alef[chars[i + 2]][1]

\* the ligature emitted for lam + alef
LigForm(chars, i) ==
    lam_alef[chars[i + 2]][IF prev_conn(chars, i) THEN 2 ELSE 1]

ShapeIter_LigAdvanceOne(chars, i) ==
    LET ch == chars[i + 1] IN
    IF ch \notin DOMAIN ar_forms THEN [form |-> ch, adv |-> 1]
    ELSE IF IsLamAlef(chars, i) THEN [form |-> LigForm(chars, i), adv |-> 1]
    ELSE [form |-> ChooseForm(ar_forms[ch], prev_conn(chars, i),
                              next_ar(nxt(chars, i))),
          adv |-> 1]

\* one iteration of the while loop: the codepoint appended and the advance
ShapeIter(chars, i) ==
    LET ch == chars[i + 1] IN
    IF ch \notin DOMAIN ar_forms THEN [form |-> ch, adv |-> 1]
    ELSE IF IsLamAlef(chars, i) THEN [form |-> LigForm(chars, i), adv |-> 2]
    ELSE [form |-> ChooseForm(ar_forms[ch], prev_conn(chars, i),
                              next_ar(nxt(chars, i))),
          adv |-> 1]

\* _shape_run as a function: the while loop run from index i with shaped so far
RECURSIVE ShapeFrom(_, _, _)
ShapeFrom(chars, i, acc) ==
    IF i < Len(chars)
    THEN LET r == ShapeIter(chars, i)
         IN ShapeFrom(chars, i + r.adv, Append(acc, r.form))
    ELSE acc

shape_run(chars) == ShapeFrom(chars, 0, <<>>)

\* ----------------------------------------------------------------- segmenter
SegChar_DropOnSwitch(st, ch) ==
    LET is_ar == is_arabic_class(ch) IN
    IF <<is_ar>> # st.cur_ar /\ st.cur # <<>>
    THEN [segs   |-> Append(st.segs, [is_ar |-> st.cur_ar[1], seg |-> st.cur]),
          cur    |-> <<>>,
          cur_ar |-> <<is_ar>>]
    ELSE [segs   |-> st.segs,
          cur    |-> Append(st.cur, ch),
          cur_ar |-> IF st.cur_ar = <<>> THEN <<is_ar>> ELSE st.cur_ar]

SegChar_StaleClass(st, ch) ==
    LET is_ar == is_arabic_class(ch) IN
    IF <<is_ar>> # st.cur_ar /\ st.cur # <<>>
    THEN [segs   |-> Append(st.segs, [is_ar |-> st.cur_ar[1], seg |-> st.cur]),
          cur    |-> <<ch>>,
          cur_ar |-> st.cur_ar]
    ELSE [segs   |-> st.segs,
          cur    |-> Append(st.cur, ch),
          cur_ar |-> IF st.cur_ar = <<>> THEN <<is_ar>> ELSE st.cur_ar]

\* the body of "for ch in line"; cur_ar is <<>> for None, <<b>> for b
SegChar(st, ch) ==
    LET is_ar == is_arabic_class(ch) IN
    IF <<is_ar>> # st.cur_ar /\ st.cur # <<>>
    THEN [segs   |-> Append(st.segs, [is_ar |-> st.cur_ar[1], seg |-> st.cur]),
          cur    |-> <<ch>>,
          cur_ar |-> <<is_ar>>]
    ELSE [segs   |-> st.segs,
          cur    |-> Append(st.cur, ch),
          cur_ar |-> IF st.cur_ar = <<>> THEN <<is_ar>> ELSE st.cur_ar]

\* "if cur: segs.append(...)" after the loop
SegClose(st) ==
    IF st.cur # <<>>
    THEN Append(st.segs, [is_ar |-> st.cur_ar[1], seg |-> st.cur])
    ELSE st.segs

RECURSIVE SegFrom(_, _, _)
SegFrom(line, k, st) ==
    IF k <= Len(line) THEN SegFrom(line, k + 1, SegChar(st, line[k]))
    ELSE SegClose(st)

\* the segment list of a line
Segments(line) ==
    SegFrom(line, 1, [segs |-> <<>>, cur |-> <<>>, cur_ar |-> <<>>])

\* ------------------------------------------------------------------ composer
\* the part of an Arabic segment
ArPart(seg) == [kind |-> "ar", text |-> Reverse(shape_run(Strip(seg)))]

LtrPart_Reversed(seg) == [kind |-> "ltr", text |-> Reverse(seg)]

\* the part of a non-Arabic segment
LtrPart(seg) == [kind |-> "ltr", text |-> seg]

JoinParts_NoReverse(ps) == Join([k \in 1..Len(ps) |-> ps[k].text])

\* parts.reverse(); ''.join(p for _, p in parts)
JoinParts(ps) == Join([k \in 1..Len(ps) |-> Reverse(ps)[k].text])

\* the output line of one input line
ar_line(line) ==
    IF IsBlank(line) THEN <<>>
    ELSE LET sg == Segments(line)
         IN JoinParts([k \in 1..Len(sg) |->
                IF sg[k].is_ar THEN ArPart(sg[k].seg) ELSE LtrPart(sg[k].seg)])

\* ------------------------------------------------------- the frame of a call
VARIABLES
    text,          \* the argument of ar
    pc,            \* position in ar: start, line, seg, compose, shape, done
    lines,         \* text.split('\n')
    li,            \* 1-based index of the line the outer loop is at
    result_lines,
    line,
    segs, cur, cur_ar,
    ci,            \* 1-based index of the character the segmenter is at
    parts,
    si,            \* 1-based index of the segment the composer is at
    chars, i, shaped,   \* locals of _shape_run
    result         \* the value returned

vars == <<ar_forms, lam_alef, history, text, pc, lines, li, result_lines,
          line, segs, cur, cur_ar, ci, parts, si, chars, i, shaped, result>>

globals == <<ar_forms, lam_alef>>
lineVars == <<line, segs, cur, cur_ar, ci, parts, si>>
shapeVars == <<chars, i, shaped>>

\* the state after the module is loaded and ar is called with text
StartOfCall(t) ==
    /\ ar_forms = AR_FORMS
    /\ lam_alef = LAM_ALEF
    /\ history = <<>>
    /\ text = t
    /\ pc = "start"
    /\ lines = <<>>
    /\ li = 1
    /\ result_lines = <<>>
    /\ line = <<>>
    /\ segs = <<>>
    /\ cur = <<>>
    /\ cur_ar = <<>>
    /\ ci = 1
    /\ parts = <<>>
    /\ si = 1
    /\ chars = <<>>
    /\ i = 0
    /\ shaped = <<>>
    /\ result = <<>>

Init == \E t \in Texts : StartOfCall(t)

\* if not text: return text
ReturnEmpty ==
    /\ pc = "start"
    /\ text = <<>>
    /\ result' = text
    /\ pc' = "done"
    /\ UNCHANGED <<globals, history, text, lines, li, result_lines, lineVars, shapeVars>>

Begin_KeepLines ==
    /\ pc = "start"
    /\ text # <<>>
    /\ lines' = Split(text)
    /\ li' = 1
    /\ pc' = "line"
    /\ UNCHANGED <<globals, history, text, result_lines, lineVars, shapeVars,
                   result>>

\* result_lines = []; enter "for line in text.split('\n')"
Begin ==
    /\ pc = "start"
    /\ text # <<>>
    /\ lines' = Split(text)
    /\ li' = 1
    /\ result_lines' = <<>>
    /\ pc' = "line"
    /\ UNCHANGED <<globals, history, text, lineVars, shapeVars, result>>

\* a line with "not line.strip()": append '' and continue
BlankLine ==
    /\ pc = "line"
    /\ li <= Len(lines)
    /\ IsBlank(lines[li])
    /\ line' = lines[li]
    /\ result_lines' = Append(result_lines, <<>>)
    /\ li' = li + 1
    /\ UNCHANGED <<globals, history, text, pc, lines, segs, cur, cur_ar, ci, parts, si,
                   shapeVars, result>>

\* any other line: segs, cur, cur_ar = [], [], None; enter "for ch in line"
BeginLine ==
    /\ pc = "line"
    /\ li <= Len(lines)
    /\ ~IsBlank(lines[li])
    /\ line' = lines[li]
    /\ segs' = <<>>
    /\ cur' = <<>>
    /\ cur_ar' = <<>>
    /\ ci' = 1
    /\ pc' = "seg"
    /\ UNCHANGED <<globals, history, text, lines, li, result_lines, parts, si, shapeVars, result>>

\* one iteration of "for ch in line"
SegStep ==
    /\ pc = "seg"
    /\ ci <= Len(line)
    /\ LET st == SegChar([segs |-> segs, cur |-> cur, cur_ar |-> cur_ar],
                         line[ci])
       IN /\ segs' = st.segs
          /\ cur' = st.cur
          /\ cur_ar' = st.cur_ar
    /\ ci' = ci + 1
    /\ UNCHANGED <<globals, history, text, pc, lines, li, result_lines, line, parts, si,
                   shapeVars, result>>

\* end of "for ch in line": close the buffer; parts = []
SegEnd ==
    /\ pc = "seg"
    /\ ci > Len(line)
    /\ segs' = SegClose([segs |-> segs, cur |-> cur, cur_ar |-> cur_ar])
    /\ parts' = <<>>
    /\ si' = 1
    /\ pc' = "compose"
    /\ UNCHANGED <<globals, history, text, lines, li, result_lines, line, cur, cur_ar, ci,
                   shapeVars, result>>

\* "for is_ar, seg in segs", else branch: parts.append(('ltr', seg))
ComposeLtr ==
    /\ pc = "compose"
    /\ si <= Len(segs)
    /\ ~segs[si].is_ar
    /\ parts' = Append(parts, LtrPart(segs[si].seg))
    /\ si' = si + 1
    /\ UNCHANGED <<globals, history, text, pc, lines, li, result_lines, line, segs, cur, cur_ar,
                   ci, shapeVars, result>>

\* "for is_ar, seg in segs", if branch: call _shape_run(list(seg.strip()))
CallShape ==
    /\ pc = "compose"
    /\ si <= Len(segs)
    /\ segs[si].is_ar
    /\ chars' = Strip(segs[si].seg)
    /\ i' = 0
    /\ shaped' = <<>>
    /\ pc' = "shape"
    /\ UNCHANGED <<globals, history, text, lines, li, result_lines, lineVars, result>>

\* one iteration of "while i < len(chars)"
ShapeStep ==
    /\ pc = "shape"
    /\ i < Len(chars)
    /\ LET r == ShapeIter(chars, i)
       IN /\ shaped' = Append(shaped, r.form)
          /\ i' = i + r.adv
    /\ UNCHANGED <<globals, history, text, pc, lines, li, result_lines, lineVars, chars, result>>

\* return shaped; parts.append(('ar', ''.join(shaped)[::-1]))
ShapeReturn ==
    /\ pc = "shape"
    /\ ~(i < Len(chars))
    /\ parts' = Append(parts, [kind |-> "ar", text |-> Reverse(shaped)])
    /\ si' = si + 1
    /\ pc' = "compose"
    /\ UNCHANGED <<globals, history, text, lines, li, result_lines, line, segs, cur, cur_ar, ci,
                   shapeVars, result>>

\* parts.reverse(); result_lines.append(''.join(p for _, p in parts))
ComposeEnd ==
    /\ pc = "compose"
    /\ si > Len(segs)
    /\ parts' = Reverse(parts)
    /\ result_lines' = Append(result_lines, JoinParts(parts))
    /\ li' = li + 1
    /\ pc' = "line"
    /\ UNCHANGED <<globals, history, text, lines, line, segs, cur, cur_ar, ci, si, shapeVars,
                   result>>

\* return '\n'.join(result_lines)
Return ==
    /\ pc = "line"
    /\ li > Len(lines)
    /\ result' = JoinLines(result_lines)
    /\ pc' = "done"
    /\ UNCHANGED <<globals, history, text, lines, li, result_lines, lineVars, shapeVars>>

Next ==
    \/ ReturnEmpty
    \/ Begin
    \/ BlankLine
    \/ BeginLine
    \/ SegStep
    \/ SegEnd
    \/ ComposeLtr
    \/ CallShape
    \/ ShapeStep
    \/ ShapeReturn
    \/ ComposeEnd
    \/ Return

Spec == Init /\ [][Next]_vars

\* ------------------------------------------------------- several calls in a row
\* The callers (the PDF builder) call ar once per field, one call after the
\* other.  A new call gets a new frame whose locals are unbound until they
\* are assigned; the model leaves the values of the finished frame in them,
\* so that a read before assignment would pick up the earlier call's data.
NewCall(arg) ==
    /\ pc = "done"
    /\ Len(history) + 1 < MaxCalls
    /\ history' = Append(history, [arg |-> text, result |-> result])
    /\ text' = arg
    /\ pc' = "start"
    /\ UNCHANGED <<globals, lines, li, result_lines, lineVars, shapeVars,
                   result>>

\* the caller passes the value just returned to ar again
Reapply == NewCall(result)

\* the caller passes the argument of this or of an earlier call again
Repeat ==
    \E arg \in {text} \cup {history[k].arg : k \in 1..Len(history)} :
        NewCall(arg)

InitRe == \E t \in ReTexts : StartOfCall(t)

NextRe == Next \/ Reapply \/ Repeat

ReSpec == InitRe /\ [][NextRe]_vars

\* every call runs to its return: the interpreter keeps executing statements
InitFair == \E t \in FairTexts : StartOfCall(t)

FairSpec == InitFair /\ [][Next]_vars /\ WF_vars(Next)

TypeOK ==
    /\ pc \in {"start", "line", "seg", "compose", "shape", "done"}
    /\ text \in Texts

\* ===================================================================== claims
\* the codepoints the claims speak of
ArabicBlock == 1536..1791
ArabicMarks == {1548, 1567, 33}
EligibleAlefs == {1570, 1571, 1573, 1575}
Ligatures == 65269..65276

InputLines == Split(text)
OutputLines == Split(result)

OnlyWhitespace(l) == \A k \in 1..Len(l) : l[k] \in Whitespace

NoArabicClass(s) ==
    \A k \in 1..Len(s) : s[k] \notin ArabicBlock /\ s[k] \notin ArabicMarks

\* the outer loop has just finished a line that went through the segmenter
LineComposed == pc = "line" /\ li > 1 /\ ~OnlyWhitespace(lines[li - 1])

\* ------------------------------------------------------------------------ C1
\* C1 (as stated): every input with no character of U+0600..U+06FF and none
\* of the marks Arabic comma, Arabic question mark, '!' is returned unchanged.
C1_Original == pc = "done" /\ NoArabicClass(text) => result = text

\* C1 (amended): every input with no Arabic-class character in which no line
\* is a non-empty run of whitespace only is returned unchanged.
C1_Unchanged ==
    (/\ pc = "done"
     /\ NoArabicClass(text)
     /\ \A k \in 1..Len(InputLines) :
            InputLines[k] = <<>> \/ ~OnlyWhitespace(InputLines[k]))
    => result = text

C1_Witness ==
    /\ pc = "done"
    /\ NoArabicClass(text)
    /\ Len(text) >= 4
    /\ \E k \in 1..Len(text) : text[k] = 32
    /\ \E k \in 1..Len(text) : text[k] = NEWLINE
    /\ \A k \in 1..Len(InputLines) : ~OnlyWhitespace(InputLines[k])
    /\ result = text

\* ------------------------------------------------------------------------ C2
SegText(sg) == Join([k \in 1..Len(sg) |-> sg[k].seg])

\* C2: the segments the segmenter produces for a line, concatenated in order
\* with their characters in order, are the line itself; while the segmenter
\* is running, the closed segments followed by the open buffer are the part
\* of the line scanned so far.
C2_SegmentRoundTrip ==
    /\ pc \in {"seg", "compose", "shape"} => line = InputLines[li]
    /\ pc = "seg" => SegText(segs) \o cur = SubSeq(line, 1, ci - 1)
    /\ pc \in {"compose", "shape"} => SegText(segs) = line

C2_Witness ==
    /\ pc = "compose"
    /\ Len(segs) >= 3
    /\ Len(line) >= 4
    /\ \E k \in 1..Len(line) : line[k] = 32
    /\ SegText(segs) = line

\* ------------------------------------------------------------------------ C3
\* x may stand for the single input character ch
OneForOne(ch, x) ==
    IF ch \in DOMAIN AR_FORMS
    THEN x # None /\ \E slot \in 1..4 : x = AR_FORMS[ch][slot]
    ELSE x = ch

\* out is c with one-for-one substitutions and lam+alef pairs collapsed
RECURSIVE Aligned(_, _)
Aligned(c, out) ==
    IF c = <<>> THEN out = <<>>
    ELSE /\ out # <<>>
         /\ \/ OneForOne(c[1], out[1]) /\ Aligned(Tail(c), Tail(out))
            \/ /\ Len(c) >= 2
               /\ c[1] = LAM
               /\ c[2] \in EligibleAlefs
               /\ out[1] \in {LAM_ALEF[c[2]][1], LAM_ALEF[c[2]][2]}
               /\ Aligned(SubSeq(c, 3, Len(c)), Tail(out))

NumLigatures(out) == Cardinality({k \in 1..Len(out) : out[k] \in Ligatures})

\* C3: at every point of the scan of _shape_run the output so far is the
\* scanned input with each character kept, replaced by a present slot of its
\* own table entry, or (lam + eligible alef) replaced by one ligature; its
\* length is the number of characters scanned minus the ligatures emitted.
C3_OneForOneOrLigature ==
    pc = "shape" /\ i <= Len(chars) =>
        /\ Aligned(SubSeq(chars, 1, i), shaped)
        /\ Len(shaped) = i - NumLigatures(shaped)

C3_Witness ==
    /\ pc = "shape"
    /\ i = Len(chars)
    /\ Len(chars) >= 4
    /\ NumLigatures(shaped) = 1
    /\ Len(shaped) = Len(chars) - 1
    /\ \E k \in 1..Len(shaped) : shaped[k] \in ArabicBlock
    /\ \E k \in 1..Len(shaped) : shaped[k] \in 65152..65268

\* ------------------------------------------------------------------------ C4
RECURSIVE ReversedConcat(_)
ReversedConcat(ts) ==
    IF ts = <<>> THEN <<>> ELSE ReversedConcat(Tail(ts)) \o Head(ts)

Transformed(s) == IF s.is_ar THEN Reverse(shape_run(s.seg)) ELSE s.seg

\* C4: the output line is the concatenation, in reversed segment order, of
\* each Other segment verbatim and each Arabic segment shaped and reversed;
\* lam beh space H gives two segments and the output space H beh-final
\* lam-initial.
C4_ReversedSegmentOrder ==
    /\ LineComposed =>
           result_lines[li - 1] =
               ReversedConcat([k \in 1..Len(segs) |-> Transformed(segs[k])])
    /\ LineComposed /\ lines[li - 1] = <<1604, 1576, 32, 72>> =>
           /\ Len(segs) = 2
           /\ result_lines[li - 1] = <<32, 72, 65168, 65247>>
    /\ pc = "done" /\ text = <<1604, 1576, 32, 72>> =>
           result = <<32, 72, 65168, 65247>>

C4_Witness ==
    /\ LineComposed
    /\ Len(segs) = 2
    /\ segs[1].is_ar
    /\ ~segs[2].is_ar
    /\ Len(segs[1].seg) >= 2
    /\ Len(segs[2].seg) >= 2
    /\ result_lines[li - 1] = segs[2].seg \o Reverse(shape_run(segs[1].seg))

\* ------------------------------------------------------------------------ C5
\* the scan is at a lam immediately followed by a ligature-eligible alef
AtLamAlef ==
    /\ pc = "shape"
    /\ i + 1 < Len(chars)
    /\ chars[i + 1] = LAM
    /\ chars[i + 2] \in EligibleAlefs

IsolatedLigature(alef) ==
    CASE alef = 1570 -> 65269
      [] alef = 1571 -> 65271
      [] alef = 1573 -> 65273
      [] alef = 1575 -> 65275

FinalLigature(alef) == IsolatedLigature(alef) + 1

\* ch has a table entry whose initial slot is present
JoinsForward(ch) == ch \in DOMAIN AR_FORMS /\ AR_FORMS[ch][3] # None

C5_LigatureStep ==
    AtLamAlef =>
        /\ shaped' = Append(shaped,
               IF i = 0 \/ ~JoinsForward(chars[i])
               THEN IsolatedLigature(chars[i + 2])
               ELSE FinalLigature(chars[i + 2]))
        /\ i' = i + 2

\* the scan never stands on the alef of a lam + alef pair
C5_NeverSeparate ==
    pc = "shape" /\ 0 < i /\ i < Len(chars) =>
        ~(chars[i] = LAM /\ chars[i + 1] \in EligibleAlefs)

C5_Standalone == pc = "done" /\ text = <<1604, 1575>> => result = <<65275>>

\* C5: a lam immediately followed by an eligible alef is emitted as exactly
\* one ligature of that alef, isolated when lam is first or its predecessor
\* does not join forward, final otherwise, and the scan skips both
\* characters; standalone lam + alef gives U+FEFB.
C5_LamAlefLigature ==
    /\ [](C5_NeverSeparate /\ C5_Standalone)
    /\ [][C5_LigatureStep]_vars

C5_Witness ==
    /\ pc = "shape"
    /\ Len(chars) >= 3
    /\ i = 3
    /\ JoinsForward(chars[1])
    /\ chars[2] = LAM
    /\ chars[3] = 1575
    /\ shaped[2] = 65276

\* ------------------------------------------------------------------------ C6
\* the character being shaped is the first letter of a mutually joinable pair
FirstOfPair ==
    /\ pc = "shape"
    /\ i + 1 < Len(chars)
    /\ JoinsForward(chars[i + 1])
    /\ JoinsForward(chars[i + 2])

\* the character being shaped is the second letter of such a pair
SecondOfPair ==
    /\ pc = "shape"
    /\ 0 < i /\ i < Len(chars)
    /\ JoinsForward(chars[i])
    /\ JoinsForward(chars[i + 1])

EmitsOneOf(forms) ==
    /\ i' = i + 1
    /\ \E x \in forms : shaped' = Append(shaped, x)

C6_FirstStep ==
    FirstOfPair =>
        EmitsOneOf({AR_FORMS[chars[i + 1]][3], AR_FORMS[chars[i + 1]][4]})

C6_SecondStepOriginal ==
    SecondOfPair =>
        EmitsOneOf({AR_FORMS[chars[i + 1]][2], AR_FORMS[chars[i + 1]][4]})

C6_SecondStep ==
    SecondOfPair =>
        IF AtLamAlef
        THEN /\ i' = i + 2
             /\ shaped' = Append(shaped, FinalLigature(chars[i + 2]))
        ELSE EmitsOneOf({AR_FORMS[chars[i + 1]][2], AR_FORMS[chars[i + 1]][4]})

\* the only characters the scan steps over are not forward-joining letters
C6_NoLetterSkipped ==
    pc = "shape" /\ pc' = "shape" /\ i' = i + 2 => ~JoinsForward(chars[i + 2])

\* C6 (as stated): of two adjacent letters that both join forward, the first
\* is emitted in its initial or medial form, the second in its final or
\* medial form.
C6_Original ==
    [][C6_FirstStep /\ C6_SecondStepOriginal /\ C6_NoLetterSkipped]_vars

\* C6 (amended): ... the second in its final or medial form, unless the
\* second is a lam immediately followed by a ligature-eligible alef, in which
\* case lam and alef are emitted together as the final ligature.
C6_JoinedPair ==
    [][C6_FirstStep /\ C6_SecondStep /\ C6_NoLetterSkipped]_vars

C6_Witness ==
    /\ pc = "shape"
    /\ i = 3
    /\ Len(chars) = 3
    /\ \A k \in 1..3 : JoinsForward(chars[k])
    /\ shaped = <<AR_FORMS[chars[1]][3], AR_FORMS[chars[2]][4],
                  AR_FORMS[chars[3]][2]>>

\* ------------------------------------------------------------------------ C7
\* segment k is a run of one Arabic letter that has a table entry
LoneLetter(k) ==
    /\ segs[k].is_ar
    /\ Len(segs[k].seg) = 1
    /\ segs[k].seg[1] \in DOMAIN AR_FORMS

\* the line is a, then one Arabic letter c, then b, with no other
\* Arabic-class character
OnlyArabicIs(l, k) ==
    /\ l[k] \in DOMAIN AR_FORMS
    /\ \A j \in 1..Len(l) : j # k => NoArabicClass(<<l[j]>>)

\* C7: a letter with a table entry that is alone in its Arabic run is
\* emitted by ar as its isolated-slot codepoint: the run's part of the
\* output line is that one codepoint, and when it is the only Arabic-class
\* character of the line the output is (text after) isolated (text before).
C7_LoneLetterIsolated ==
    LineComposed =>
        /\ result_lines[li - 1] = Join([k \in 1..Len(parts) |-> parts[k].text])
        /\ Len(parts) = Len(segs)
        /\ \A k \in 1..Len(segs) :
               LoneLetter(k) =>
                   parts[Len(segs) - k + 1].text = <<AR_FORMS[segs[k].seg[1]][1]>>
        /\ \A k \in 1..Len(line) :
               OnlyArabicIs(line, k) =>
                   result_lines[li - 1] =
                       SubSeq(line, k + 1, Len(line))
                       \o <<AR_FORMS[line[k]][1]>>
                       \o SubSeq(line, 1, k - 1)

C7_Witness ==
    /\ LineComposed
    /\ Len(line) >= 3
    /\ OnlyArabicIs(line, 2)
    /\ JoinsForward(line[2])
    /\ Len(segs) = 3
    /\ LoneLetter(2)
    /\ result_lines[li - 1] = <<line[3], AR_FORMS[line[2]][1], line[1]>>

\* ------------------------------------------------------------------------ C8
\* C8: every input line that is empty or whitespace-only gives the empty
\* output line.
C8_BlankLineEmpty ==
    pc = "done" =>
        \A k \in 1..Len(InputLines) :
            OnlyWhitespace(InputLines[k]) =>
                k <= Len(OutputLines) /\ OutputLines[k] = <<>>

C8_Witness ==
    /\ pc = "done"
    /\ Len(InputLines) >= 2
    /\ \E k \in 1..Len(InputLines) :
           InputLines[k] # <<>> /\ OnlyWhitespace(InputLines[k])
                                /\ OutputLines[k] = <<>>
    /\ \E k \in 1..Len(InputLines) : ~OnlyWhitespace(InputLines[k])

\* ------------------------------------------------------------------------ C9
NumNewlines(s) == Cardinality({k \in 1..Len(s) : s[k] = NEWLINE})

\* C9: the output has as many lines (and newline separators) as the input,
\* output line k is the transform of input line k, and the empty string
\* maps to the empty string.
C9_LineCount ==
    pc = "done" =>
        /\ Len(OutputLines) = Len(InputLines)
        /\ NumNewlines(result) = NumNewlines(text)
        /\ \A k \in 1..Len(InputLines) : OutputLines[k] = ar_line(InputLines[k])
        /\ text = <<>> => result = <<>>

C9_Witness ==
    /\ pc = "done"
    /\ NumNewlines(text) >= 2
    /\ Len(OutputLines) = NumNewlines(text) + 1
    /\ \E k \in 1..Len(InputLines) :
           OutputLines[k] # <<>> /\ OutputLines[k] # InputLines[k]
    /\ \E k \in 1..Len(InputLines) : InputLines[k] = <<>>

\* ----------------------------------------------------------------------- C10
\* the scan index stays within the run and no absent slot is ever emitted
C10_InBounds ==
    /\ pc = "shape" => 0 <= i /\ i <= Len(chars)
    /\ \A k \in 1..Len(shaped) : shaped[k] # None /\ shaped[k] # NoChar
    /\ pc = "done" => \A k \in 1..Len(result) : result[k] > 0

\* each iteration advances by 1 or 2 and the loop exits at the run length
C10_Advance ==
    /\ pc = "shape" /\ pc' = "shape" => i' = i + 1 \/ i' = i + 2
    /\ pc = "shape" /\ pc' # "shape" => i = Len(chars)

\* C10: every call of ar returns; the scan index of _shape_run grows by 1 or
\* 2 per iteration, stays within the run, ends equal to the run length, and
\* every emitted element is a character.
C10_Total ==
    /\ <>(pc = "done")
    /\ []C10_InBounds
    /\ [][C10_Advance]_vars

C10_Witness ==
    /\ pc = "done"
    /\ Len(text) >= 3
    /\ SubSeq(text, 1, 3) = <<1576, 1569, 1604>>
    /\ SubSeq(result, Len(result) - 2, Len(result)) = <<65245, 65152, 65169>>

\* ----------------------------------------------------------------------- C11
\* this call was given the value the previous call returned
IsReapplication ==
    Len(history) >= 1 /\ history[Len(history)].result = text

\* x is one line: a non-blank run of non-Arabic-class characters followed by
\* a run of Arabic-class punctuation marks (such as "H!")
OtherThenMarks(x) ==
    \E k \in 1..(Len(x) - 1) :
        /\ \A j \in 1..k : NoArabicClass(<<x[j]>>) /\ x[j] # NEWLINE
        /\ \E j \in 1..k : x[j] \notin Whitespace
        /\ \A j \in (k + 1)..Len(x) : x[j] \in ArabicMarks

\* C11: ar is not idempotent: for x a non-blank Other run followed by
\* Arabic-class marks (x = "H!" is one), ar(ar(x)) differs from ar(x) (it is
\* x again).
C11_NotIdempotent ==
    (/\ pc = "done"
     /\ Len(history) = 1
     /\ IsReapplication
     /\ OtherThenMarks(history[1].arg))
    => result # text /\ result = history[1].arg

C11_Witness ==
    /\ pc = "done"
    /\ Len(history) = 1
    /\ history[1] = [arg |-> <<72, 33>>, result |-> <<33, 72>>]
    /\ text = <<33, 72>>
    /\ result = <<72, 33>>

\* ----------------------------------------------------------------------- C12
C12_TablesUnchanged == ar_forms' = ar_forms /\ lam_alef' = lam_alef

C12_SameInputSameOutput ==
    /\ ar_forms = AR_FORMS
    /\ lam_alef = LAM_ALEF
    /\ pc = "done" =>
           /\ \A k \in 1..Len(history) :
                  history[k].arg = text => history[k].result = result
           /\ result = JoinLines([k \in 1..Len(InputLines) |->
                                      ar_line(InputLines[k])])

ArabicAreTableLetters(x) ==
    \A k \in 1..Len(x) :
        x[k] \in ArabicBlock \cup ArabicMarks => x[k] \in DOMAIN AR_FORMS

\* C18: when every Arabic-class character of the input is a letter with a
\* table entry, the output has no Arabic-class character, and applying ar
\* to that output returns it unchanged.
C18_ShapedOutputIsFixed ==
    /\ pc = "done" /\ ArabicAreTableLetters(text) => NoArabicClass(result)
    /\ (/\ pc = "done"
        /\ IsReapplication
        /\ ArabicAreTableLetters(history[Len(history)].arg))
       => result = text

C18_Witness ==
    /\ pc = "done"
    /\ Len(history) = 1
    /\ IsReapplication
    /\ ArabicAreTableLetters(history[1].arg)
    /\ \E k \in 1..Len(history[1].arg) : history[1].arg[k] = LAM
    /\ \E k \in 1..Len(history[1].arg) : history[1].arg[k] = 72
    /\ Len(history[1].arg) >= 3
    /\ text # history[1].arg
    /\ result = text

\* ----------------------------------------------------------------------- C13
\* the previous input character exists and has an initial slot
PrevConnects == i > 0 /\ JoinsForward(chars[i])

\* the next input character exists, is in U+0600..U+06FF or has a table
\* entry, and is none of space, Arabic comma, Arabic question mark, '!',
\* en-dash, hyphen, newline
NextJoinable ==
    /\ i + 1 < Len(chars)
    /\ chars[i + 2] \in ArabicBlock \/ chars[i + 2] \in DOMAIN AR_FORMS
    /\ chars[i + 2] \notin {32, 1548, 1567, 33, 8211, 45, 10}

PriorityForm ==
    LET f == AR_FORMS[chars[i + 1]] IN
    IF PrevConnects /\ NextJoinable /\ f[3] # None /\ f[4] # None THEN f[4]
    ELSE IF PrevConnects /\ f[2] # None THEN f[2]
    ELSE IF NextJoinable /\ f[3] # None THEN f[3]
    ELSE f[1]

C13_Step ==
    (/\ pc = "shape"
     /\ i < Len(chars)
     /\ chars[i + 1] \in DOMAIN AR_FORMS
     /\ ~AtLamAlef)
    => shaped' = Append(shaped, PriorityForm) /\ i' = i + 1

\* C13: every table letter that the ligature rule does not consume is
\* emitted in the form the priority table gives: medial, else final, else
\* initial, else isolated, decided by prev_connects, next_joinable and the
\* letter's own slots.
C13_PriorityTable == [][C13_Step]_vars

C13_Witness ==
    /\ pc = "shape"
    /\ i = 2
    /\ Len(chars) >= 3
    /\ chars[1] = 1576
    /\ chars[2] = LAM
    /\ chars[3] = 1548
    /\ shaped = <<65169, 65246>>

\* ----------------------------------------------------------------------- C14
IsArabicClass(ch) == ch \in ArabicBlock \/ ch \in ArabicMarks

\* C14: the segments of a line that is not whitespace-only are maximal
\* same-class runs: none is empty, every character has the class of its
\* segment's tag, and neighbouring segments have different tags.
C14_MaximalRuns ==
    pc \in {"compose", "shape"} \/ LineComposed =>
        /\ Len(segs) >= 1
        /\ \A k \in 1..Len(segs) :
               /\ segs[k].seg # <<>>
               /\ \A j \in 1..Len(segs[k].seg) :
                      IsArabicClass(segs[k].seg[j]) <=> segs[k].is_ar
        /\ \A k \in 1..(Len(segs) - 1) : segs[k].is_ar # segs[k + 1].is_ar

C14_Witness ==
    /\ pc = "compose"
    /\ Len(segs) = 3
    /\ segs[1].is_ar
    /\ ~segs[2].is_ar
    /\ Len(segs[2].seg) = 2
    /\ segs[3].seg = <<33>>

\* ----------------------------------------------------------------------- C15
FinalForms == {AR_FORMS[c][2] : c \in DOMAIN AR_FORMS} \ {None}
InitialForms == {AR_FORMS[c][3] : c \in DOMAIN AR_FORMS} \ {None}
MedialForms == {AR_FORMS[c][4] : c \in DOMAIN AR_FORMS} \ {None}
FinalLigatures == {LAM_ALEF[a][2] : a \in DOMAIN LAM_ALEF}

ConnectsForward(x) == x \in InitialForms \cup MedialForms
ConnectsBackward(x) == x \in FinalForms \cup MedialForms \cup FinalLigatures

\* _shape_run has scanned the whole run: shaped is what it returns
RunShaped == pc = "shape" /\ i = Len(chars)

\* C15: in the output of _shape_run every initial or medial form is
\* immediately followed by a final form, a medial form or a final lam-alef
\* ligature.
C15_ForwardJoin ==
    RunShaped =>
        \A k \in 1..Len(shaped) :
            ConnectsForward(shaped[k]) =>
                k < Len(shaped) /\ ConnectsBackward(shaped[k + 1])

\* ----------------------------------------------------------------------- C16
\* C16: in the output of _shape_run every final form, medial form or final
\* lam-alef ligature is immediately preceded by an initial or medial form
\* (so the first element is none of these), and the last element of the
\* whole output is not an initial or medial form.
C16_BackwardJoin ==
    /\ pc = "shape" /\ i <= Len(chars) =>
           \A k \in 1..Len(shaped) :
               ConnectsBackward(shaped[k]) =>
                   k > 1 /\ ConnectsForward(shaped[k - 1])
    /\ RunShaped /\ shaped # <<>> => ~ConnectsForward(shaped[Len(shaped)])

C16_Witness ==
    /\ RunShaped
    /\ Len(chars) = 4
    /\ Len(shaped) = 3
    /\ shaped[1] \in InitialForms
    /\ shaped[2] \in MedialForms
    /\ shaped[3] \in FinalLigatures

\* ----------------------------------------------------------------------- C17
NumLamAlef(l) ==
    Cardinality({k \in 1..(Len(l) - 1) :
                     l[k] = LAM /\ l[k + 1] \in EligibleAlefs})

\* C17: an Arabic-class segment contains no whitespace and is passed to the
\* shaper whole; the output line is as long as the input line minus the
\* lam+alef pairs collapsed; every segment is in the output verbatim (Other)
\* or shaped one-for-one up to ligatures (Arabic).
C17_NothingLost ==
    /\ pc \in {"compose", "shape"} =>
           \A k \in 1..Len(segs) :
               segs[k].is_ar =>
                   \A j \in 1..Len(segs[k].seg) : segs[k].seg[j] \notin Whitespace
    /\ pc = "shape" => chars = segs[si].seg
    /\ LineComposed =>
           /\ Len(result_lines[li - 1]) = Len(line) - NumLamAlef(line)
           /\ Len(parts) = Len(segs)
           /\ \A k \in 1..Len(segs) :
                  LET part == parts[Len(segs) - k + 1].text IN
                  IF segs[k].is_ar
                  THEN Aligned(segs[k].seg, Reverse(part))
                  ELSE part = segs[k].seg

C17_Witness ==
    /\ LineComposed
    /\ Len(line) >= 4
    /\ NumLamAlef(line) = 1
    /\ \E k \in 1..Len(line) : line[k] = 33
    /\ \E k \in 1..Len(line) : line[k] = 32
    /\ Len(result_lines[li - 1]) = Len(line) - 1

====
